---------------------------- MODULE Spec2Model ----------------------------
(***************************************************************************)
(* Model of the finance dashboard (App and ReportsView).                   *)
(*                                                                         *)
(* Money in the tax estimator is an exact decimal: the record              *)
(* [w |-> whole, f |-> fraction] stands for w + f / Scale with             *)
(* 0 <= f < Scale.  Scale is fine enough that every product the code       *)
(* forms from an income given in whole cents is represented exactly.       *)
(* Transaction amounts are whole numbers of cents.                         *)
(***************************************************************************)
EXTENDS Integers, Sequences, FiniteSets

VARIABLES
    grossIncome,    \* totalGrossIncome of the last render, in cents
    taxes,          \* calculateTaxes(totalGrossIncome) of the last render
    transactions,   \* the transactions prop of ReportsView
    period,         \* ReportsView's period state
    periodData,     \* getPeriodData() of the last render of ReportsView
    reportYear,     \* currentYear of the last render of ReportsView
    tzOffset,       \* local time minus UTC, in hours, of the browser
    now,            \* the clock: hours since 1970-01-01T00:00Z
    summary,        \* App's summary state
    categoryData,   \* categoryData of the last render of App
    projectionData, \* projectionData of the last render of App
    rowTx,          \* the transaction of the last rendered table row
    rowEnd,         \* what that row shows as the end of the installments
    isRecurringChecked, \* App's isRecurringChecked state (the form's checkbox)
    investments,    \* App's investments state
    server,         \* the data held behind /api
    calls,          \* the handlers and fetchData calls that are under way
    started,        \* how many fetchData calls have been started
    faults,         \* how many requests or responses have gone wrong
    lastFetch       \* how the fetchData call that ended last went

vars == <<grossIncome, taxes, transactions, period, periodData, reportYear,
          tzOffset, now, summary, categoryData, projectionData, rowTx, rowEnd,
          isRecurringChecked, investments, server, calls, started, faults,
          lastFetch>>

taxVars == <<grossIncome, taxes>>
reportVars == <<transactions, period, periodData, reportYear, tzOffset, now>>
viewVars == <<period, periodData, reportYear>>
appVars == <<summary, categoryData, projectionData>>
rowVars == <<rowTx, rowEnd>>
formVars == <<isRecurringChecked>>
fetchVars == <<investments, server, calls, started, faults, lastFetch>>

---------------------------------------------------------------------------
(* Exact decimal arithmetic standing for the code's number type.           *)

\* fraction units per currency unit: 100 cents, each of 8000 units
Scale == 100 * 8000

Norm(w, f) == [w |-> w + (f \div Scale), f |-> f % Scale]

\* the amount of c cents
Cents(c) == Norm(c \div 100, (c % 100) * (Scale \div 100))

Zero == Cents(0)

Add(a, b) == Norm(a.w + b.w, a.f + b.f)

Sub(a, b) == Norm(a.w - b.w, a.f - b.f)

Leq(a, b) == a.w < b.w \/ (a.w = b.w /\ a.f <= b.f)

Lt(a, b) == Leq(a, b) /\ a # b

\* a * r / 1000 for a rate r given per mille (0.075 is 75).  The result is
\* exact when a.f * r is a multiple of 1000: so it is for an amount in whole
\* cents and any rate, and for a taxable base and the rates 75, 150, 225, 275.
MulRate(a, r) ==
    Norm((a.w * r) \div 1000,
         ((a.w * r) % 1000) * (Scale \div 1000) + (a.f * r) \div 1000)

---------------------------------------------------------------------------
(* calculateTaxes                                                          *)

\* the pension (INSS) bracket limits and literal widths of the code
InssLimit1 == Cents(141200)
InssLimit2 == Cents(266668)
InssLimit3 == Cents(400003)
InssLimit4 == Cents(778602)
InssWidth2 == Cents(125468)
InssWidth3 == Cents(133335)
InssCap == Cents(90885)

\* the income-tax (IRPF) limits of the taxable base and the deductions
IrpfLimit1 == Cents(225920)
IrpfLimit2 == Cents(282665)
IrpfLimit3 == Cents(375105)
IrpfLimit4 == Cents(466468)
IrpfDeduct2 == Cents(16944)
IrpfDeduct3 == Cents(38144)
IrpfDeduct4 == Cents(66277)
IrpfDeduct5 == Cents(89600)

\* InssOf with the second bracket's rate applied to the whole income
InssOfFlatRate(g) ==
    IF Leq(g, InssLimit1) THEN MulRate(g, 75)
    ELSE IF Leq(g, InssLimit2) THEN MulRate(g, 90)
    ELSE IF Leq(g, InssLimit3)
        THEN Add(Add(MulRate(InssLimit1, 75), MulRate(InssWidth2, 90)),
                 MulRate(Sub(g, InssLimit2), 120))
    ELSE IF Leq(g, InssLimit4)
        THEN Add(Add(Add(MulRate(InssLimit1, 75), MulRate(InssWidth2, 90)),
                     MulRate(InssWidth3, 120)),
                 MulRate(Sub(g, InssLimit3), 140))
    ELSE InssCap

\* InssOf with the literal 1254.68 mistyped as 1245.68
InssOfWidthTypo(g) ==
    IF Leq(g, InssLimit1) THEN MulRate(g, 75)
    ELSE IF Leq(g, InssLimit2)
        THEN Add(MulRate(InssLimit1, 75), MulRate(Sub(g, InssLimit1), 90))
    ELSE IF Leq(g, InssLimit3)
        THEN Add(Add(MulRate(InssLimit1, 75), MulRate(Cents(124568), 90)),
                 MulRate(Sub(g, InssLimit2), 120))
    ELSE IF Leq(g, InssLimit4)
        THEN Add(Add(Add(MulRate(InssLimit1, 75), MulRate(Cents(124568), 90)),
                     MulRate(InssWidth3, 120)),
                 MulRate(Sub(g, InssLimit3), 140))
    ELSE InssCap

\* the if/else chain that sets inss
InssOf(g) ==
    IF Leq(g, InssLimit1) THEN MulRate(g, 75)
    ELSE IF Leq(g, InssLimit2)
        THEN Add(MulRate(InssLimit1, 75), MulRate(Sub(g, InssLimit1), 90))
    ELSE IF Leq(g, InssLimit3)
        THEN Add(Add(MulRate(InssLimit1, 75), MulRate(InssWidth2, 90)),
                 MulRate(Sub(g, InssLimit2), 120))
    ELSE IF Leq(g, InssLimit4)
        THEN Add(Add(Add(MulRate(InssLimit1, 75), MulRate(InssWidth2, 90)),
                     MulRate(InssWidth3, 120)),
                 MulRate(Sub(g, InssLimit3), 140))
    ELSE InssCap

\* IrpfFormula with the third bracket's deduction used in the second
IrpfFormulaWrongDeduction(k, base) ==
    CASE k = 1 -> Zero
      [] k = 2 -> Sub(MulRate(base, 75), IrpfDeduct3)
      [] k = 3 -> Sub(MulRate(base, 150), IrpfDeduct3)
      [] k = 4 -> Sub(MulRate(base, 225), IrpfDeduct4)
      [] k = 5 -> Sub(MulRate(base, 275), IrpfDeduct5)

\* the formula of income-tax bracket k (1..5) applied to a taxable base
IrpfFormula(k, base) ==
    CASE k = 1 -> Zero
      [] k = 2 -> Sub(MulRate(base, 75), IrpfDeduct2)
      [] k = 3 -> Sub(MulRate(base, 150), IrpfDeduct3)
      [] k = 4 -> Sub(MulRate(base, 225), IrpfDeduct4)
      [] k = 5 -> Sub(MulRate(base, 275), IrpfDeduct5)

\* the bracket the if/else chain on baseCalculo selects
IrpfBracket(base) ==
    IF Leq(base, IrpfLimit1) THEN 1
    ELSE IF Leq(base, IrpfLimit2) THEN 2
    ELSE IF Leq(base, IrpfLimit3) THEN 3
    ELSE IF Leq(base, IrpfLimit4) THEN 4
    ELSE 5

IrpfOf(base) == IrpfFormula(IrpfBracket(base), base)

\* calculateTaxes with net = grossIncome - inss
calculateTaxesNetSkipsIrpf(g) ==
    LET inss == InssOf(g)
        baseCalculo == Sub(g, inss)
        irpf == IrpfOf(baseCalculo)
    IN  [inss |-> inss, irpf |-> irpf, net |-> Sub(g, inss)]

calculateTaxes(g) ==
    LET inss == InssOf(g)
        baseCalculo == Sub(g, inss)
        irpf == IrpfOf(baseCalculo)
    IN  [inss |-> inss, irpf |-> irpf, net |-> Sub(Sub(g, inss), irpf)]

---------------------------------------------------------------------------
(* The gross incomes the tax estimator is exercised on, in cents.          *)

Window == 3
GridCount == 80
NegCount == 8
GridStep == 12500

\* the limits of the pension brackets
InssEdges == {141200, 266668, 400003, 778602}

\* the gross incomes at which the taxable base passes an income-tax limit
IrpfEdges == {245936, 309712, 415099, 521337}

\* the incomes of the worked examples, and zero
Examples == {0, 100000, 500000}

GrossInputs ==
    {e + d : e \in InssEdges \cup IrpfEdges \cup Examples, d \in -Window..Window}
    \cup {k * GridStep : k \in -NegCount..GridCount}

TaxInit ==
    /\ grossIncome = 0
    /\ taxes = calculateTaxes(Cents(0))

\* a render of App with a new summary: totalGrossIncome and taxes
RenderTaxes ==
    \E g \in GrossInputs :
        /\ grossIncome' = g
        /\ taxes' = calculateTaxes(Cents(g))
        /\ UNCHANGED <<reportVars, appVars, rowVars>>
        /\ UNCHANGED <<formVars, fetchVars>>

---------------------------------------------------------------------------
(* Dates.  A date string "YYYY-MM-DD" is the record [y, m, d] with m in    *)
(* 1..12; an instant (a JavaScript Date) is a number of hours since        *)
(* 1970-01-01T00:00Z.                                                      *)

\* the day number of a calendar date (days since 1970-01-01)
DaysFromCivil(y, m, d) ==
    LET yy == IF m <= 2 THEN y - 1 ELSE y
        era == yy \div 400
        yoe == yy - era * 400
        mp == IF m > 2 THEN m - 3 ELSE m + 9
        doy == (153 * mp + 2) \div 5 + d - 1
        doe == yoe * 365 + yoe \div 4 - yoe \div 100 + doy
    IN  era * 146097 + doe - 719468

\* the calendar date of a day number
CivilFromDays(n) ==
    LET z == n + 719468
        era == z \div 146097
        doe == z - era * 146097
        yoe == (doe - doe \div 1460 + doe \div 36524 - doe \div 146096) \div 365
        doy == doe - (365 * yoe + yoe \div 4 - yoe \div 100)
        mp == (5 * doy + 2) \div 153
        d == doy - (153 * mp + 2) \div 5 + 1
        m == IF mp < 10 THEN mp + 3 ELSE mp - 9
    IN  [y |-> yoe + era * 400 + (IF m <= 2 THEN 1 ELSE 0), m |-> m, d |-> d]

\* new Date("YYYY-MM-DD"): a date-only string is read as midnight UTC
NewDate(date) == DaysFromCivil(date.y, date.m, date.d) * 24

\* the calendar date an instant shows on the local clock
LocalDate(t, tz) == CivilFromDays((t + tz) \div 24)

\* date-fns getMonth (0..11), getYear and getQuarter (1..4): local fields
getMonth(t, tz) == LocalDate(t, tz).m - 1

getYear(t, tz) == LocalDate(t, tz).y

\* getQuarter with quarters of four months
getQuarterOfFour(t, tz) == (getMonth(t, tz) \div 4) + 1

getQuarter(t, tz) == (getMonth(t, tz) \div 3) + 1

---------------------------------------------------------------------------
(* ReportsView.getPeriodData                                               *)

isIncome(t) == t.type = "income" \/ t.type = "variable_income"

isExpense(t) == t.type = "fixed_expense" \/ t.type = "variable_expense"

RECURSIVE SumAmounts(_)
\* reduce((s, t) => s + t.amount, 0)
SumAmounts(s) ==
    IF s = <<>> THEN 0 ELSE SumAmounts(SubSeq(s, 1, Len(s) - 1)) + s[Len(s)].amount

\* one entry of data: the label and the two totals of the filtered list
Bucket(label, txs) ==
    [label |-> label,
     income |-> SumAmounts(SelectSeq(txs, isIncome)),
     expenses |-> SumAmounts(SelectSeq(txs, isExpense))]

\* the filter of the monthly branch, for month i (0..11)
MonthTransactions(txs, i, currentYear, tz) ==
    LET keep(t) == getMonth(NewDate(t.date), tz) = i
                   /\ getYear(NewDate(t.date), tz) = currentYear
    IN  SelectSeq(txs, keep)

\* the filter of the quarterly branch, for quarter i (1..4)
QuarterTransactions(txs, i, currentYear, tz) ==
    LET keep(t) == getQuarter(NewDate(t.date), tz) = i
                   /\ getYear(NewDate(t.date), tz) = currentYear
    IN  SelectSeq(txs, keep)

\* SemesterTransactions with month > 6 for the second semester
SemesterTransactionsSkipsJuly(txs, i, currentYear, tz) ==
    LET keep(t) == (IF i = 1 THEN getMonth(NewDate(t.date), tz) < 6
                             ELSE getMonth(NewDate(t.date), tz) > 6)
                   /\ getYear(NewDate(t.date), tz) = currentYear
    IN  SelectSeq(txs, keep)

\* the filter of the semi-annual branch, for semester i (1..2)
SemesterTransactions(txs, i, currentYear, tz) ==
    LET keep(t) == (IF i = 1 THEN getMonth(NewDate(t.date), tz) < 6
                             ELSE getMonth(NewDate(t.date), tz) >= 6)
                   /\ getYear(NewDate(t.date), tz) = currentYear
    IN  SelectSeq(txs, keep)

\* the filter of the annual branch
AnnualTransactions(txs, currentYear, tz) ==
    LET keep(t) == getYear(NewDate(t.date), tz) = currentYear
    IN  SelectSeq(txs, keep)

getPeriodData(txs, p, currentYear, tz) ==
    CASE p = "monthly" ->
            [k \in 1..12 |->
                Bucket(<<"month", k - 1>>,
                       MonthTransactions(txs, k - 1, currentYear, tz))]
      [] p = "quarterly" ->
            [k \in 1..4 |->
                Bucket(<<"Trimestre", k>>,
                       QuarterTransactions(txs, k, currentYear, tz))]
      [] p = "semi-annual" ->
            [k \in 1..2 |->
                Bucket(<<"Semestre", k>>,
                       SemesterTransactions(txs, k, currentYear, tz))]
      [] p = "annual" ->
            <<Bucket(<<"Ano", currentYear>>,
                     AnnualTransactions(txs, currentYear, tz))>>

Periods == {"monthly", "quarterly", "semi-annual", "annual"}

---------------------------------------------------------------------------
(* The transaction lists, time zones and clocks ReportsView is run on.     *)

MaxTransactions == 2

Types == {"income", "variable_income", "fixed_expense", "variable_expense"}

\* the amount, in cents, of the sampled transactions of each type
AmountOf(type) ==
    CASE type = "income" -> 300000
      [] type = "variable_income" -> 45050
      [] type = "fixed_expense" -> 120000
      [] type = "variable_expense" -> 7525

\* first and last days of months, quarters, semesters and years
Dates ==
    {[y |-> 2025, m |-> 1, d |-> 1], [y |-> 2025, m |-> 3, d |-> 31],
     [y |-> 2025, m |-> 7, d |-> 1], [y |-> 2025, m |-> 12, d |-> 31],
     [y |-> 2026, m |-> 1, d |-> 1]}

Transactions ==
    {[type |-> ty, amount |-> AmountOf(ty), date |-> dt] : ty \in Types, dt \in Dates}

TransactionLists ==
    UNION {[1..n -> Transactions] : n \in 0..MaxTransactions}

\* local time minus UTC in hours: Sao Paulo, UTC, Tokyo
TzOffsets == {-3, 0, 9}

\* 2025-06-15T12:00Z and 2025-12-31T23:00Z
Clocks ==
    {DaysFromCivil(2025, 6, 15) * 24 + 12, DaysFromCivil(2025, 12, 31) * 24 + 23}

ReportInit ==
    /\ transactions \in TransactionLists
    /\ tzOffset \in TzOffsets
    /\ now \in Clocks
    /\ period = "monthly"
    /\ reportYear = getYear(now, tzOffset)
    /\ periodData = getPeriodData(transactions, "monthly", getYear(now, tzOffset), tzOffset)

\* setPeriod(p) and the render that follows: currentYear and periodData
SetPeriod ==
    \E p \in Periods :
        /\ period' = p
        /\ reportYear' = getYear(now, tzOffset)
        /\ periodData' = getPeriodData(transactions, p, getYear(now, tzOffset), tzOffset)
        /\ UNCHANGED <<transactions, tzOffset, now>>
        /\ UNCHANGED <<taxVars, appVars, rowVars>>
        /\ UNCHANGED <<formVars, fetchVars>>

\* time passes
Tick ==
    \E t \in Clocks :
        /\ t > now
        /\ now' = t
        /\ UNCHANGED <<transactions, period, periodData, reportYear, tzOffset>>
        /\ UNCHANGED <<taxVars, appVars, rowVars>>
        /\ UNCHANGED <<formVars, fetchVars>>

---------------------------------------------------------------------------
(* App: the transaction records, addMonths and getEndDate                  *)

\* an absent or empty start_date
NoDate == [y |-> 0, m |-> 0, d |-> 0]

\* a Transaction of App: the fields the derived data read
Tx(type, amount, category, date, recurring, installments, start) ==
    [type |-> type, amount |-> amount, category |-> category, date |-> date,
     is_recurring |-> recurring, installments |-> installments, start_date |-> start]

DaysInMonth(y, m) ==
    IF m = 12 THEN DaysFromCivil(y + 1, 1, 1) - DaysFromCivil(y, 12, 1)
    ELSE DaysFromCivil(y, m + 1, 1) - DaysFromCivil(y, m, 1)

\* the instant of hour h of a local calendar day
LocalInstant(y, m, d, h, tz) == DaysFromCivil(y, m, d) * 24 + h - tz

\* addMonths with the day of the month carried past the month's end, as
\* Date.setMonth does (31 January plus one month is 3 March)
addMonthsOverflow(t, amount, tz) ==
    LET l == LocalDate(t, tz)
        total == l.y * 12 + (l.m - 1) + amount
        y == total \div 12
        m == (total % 12) + 1
    IN  (DaysFromCivil(y, m, 1) + l.d - 1) * 24 + ((t + tz) % 24) - tz

\* date-fns addMonths: the same local day of the month, amount months on,
\* or the last day of that month when it is shorter
addMonths(t, amount, tz) ==
    LET l == LocalDate(t, tz)
        total == l.y * 12 + (l.m - 1) + amount
        y == total \div 12
        m == (total % 12) + 1
        last == DaysInMonth(y, m)
    IN  LocalInstant(y, m, IF l.d >= last THEN last ELSE l.d, (t + tz) % 24, tz)

\* format(d, 'MM/yyyy'): the local month (1..12) and year
FormatMonthYear(t, tz) == [m |-> LocalDate(t, tz).m, y |-> LocalDate(t, tz).y]

getEndDate(startDate, installments, tz) ==
    FormatMonthYear(addMonths(NewDate(startDate), installments - 1, tz), tz)

\* the end-of-installments text of a table row: shown when
\* t.is_recurring && t.installments, for t.start_date || t.date
RowEnd(t, tz) ==
    IF t.is_recurring /\ t.installments # 0
    THEN [kind |-> "date",
          end |-> getEndDate(IF t.start_date # NoDate THEN t.start_date ELSE t.date,
                             t.installments, tz)]
    ELSE [kind |-> "none", end |-> [m |-> 0, y |-> 0]]

---------------------------------------------------------------------------
(* App: projectionData                                                     *)

isRecurringExpense(t) == t.is_recurring /\ isExpense(t)

isRecurringIncome(t) == t.is_recurring /\ isIncome(t)

\* the balance of entry i (0..5) with the factor i in place of i + 1
ProjectedBalanceFromZero(txs, summ, i) ==
    (SumAmounts(SelectSeq(txs, isRecurringIncome))
        - SumAmounts(SelectSeq(txs, isRecurringExpense))) * i
    + (summ.income + summ.variable_income - summ.fixed - summ.variable)

\* the balance of entry i with a recurring transaction left out of the months
\* after its installments
ProjectedBalanceUntilEnd(txs, summ, i) ==
    LET live(t) == t.installments >= i + 1
    IN  (SumAmounts(SelectSeq(SelectSeq(txs, isRecurringIncome), live))
            - SumAmounts(SelectSeq(SelectSeq(txs, isRecurringExpense), live))) * (i + 1)
        + (summ.income + summ.variable_income - summ.fixed - summ.variable)

\* the balance of entry i (0..5)
ProjectedBalance(txs, summ, i) ==
    (SumAmounts(SelectSeq(txs, isRecurringIncome))
        - SumAmounts(SelectSeq(txs, isRecurringExpense))) * (i + 1)
    + (summ.income + summ.variable_income - summ.fixed - summ.variable)

\* Array.from({ length: 6 }).map((_, i) => ...): month is the local month
\* (1..12) of addMonths(new Date(), i)
ProjectionDataOf(txs, summ, t, tz) ==
    [k \in 1..6 |->
        [month |-> LocalDate(addMonths(t, k - 1, tz), tz).m,
         balance |-> ProjectedBalance(txs, summ, k - 1)]]

---------------------------------------------------------------------------
(* App: categoryData.  acc is a JavaScript object: a value is              *)
(* [t |-> its type, n |-> its number]; the text of a string is not kept.   *)

JsNumber(n) == [t |-> "number", n |-> n]
JsString == [t |-> "string", n |-> 0]
JsObject == [t |-> "object", n |-> 0]
JsUndefined == [t |-> "undefined", n |-> 0]

\* {} : no own property
EmptyObject == [k \in {} |-> JsUndefined]

\* the names of the members of Object.prototype among the sampled labels
InheritedNames == {"constructor", "__proto__"}

\* acc[key]: the own property, else the one inherited from Object.prototype
ObjectGet(acc, key) ==
    IF key \in DOMAIN acc THEN acc[key]
    ELSE IF key \in InheritedNames THEN JsObject
    ELSE JsUndefined

\* acc[key] = v: "__proto__" is a setter that ignores a value that is no object
ObjectSet(acc, key, v) ==
    IF key = "__proto__" THEN acc
    ELSE [k \in (DOMAIN acc) \cup {key} |-> IF k = key THEN v ELSE acc[k]]

\* v || 0
OrZero(v) == IF v.t = "undefined" \/ (v.t = "number" /\ v.n = 0) THEN JsNumber(0) ELSE v

\* v + amount: a sum of numbers, else a concatenation of strings
JsPlus(v, amount) == IF v.t = "number" THEN JsNumber(v.n + amount) ELSE JsString

\* the callback of reduce
CategoryStep(acc, t) ==
    IF t.type # "income" /\ t.type # "variable_income"
    THEN ObjectSet(acc, t.category, JsPlus(OrZero(ObjectGet(acc, t.category)), t.amount))
    ELSE acc

RECURSIVE CategoryTotals(_)
\* transactions.reduce(..., {})
CategoryTotals(txs) ==
    IF txs = <<>> THEN EmptyObject
    ELSE CategoryStep(CategoryTotals(SubSeq(txs, 1, Len(txs) - 1)), txs[Len(txs)])

\* Object.entries(...).map(([name, value]) => ({ name, value })), as a set
CategoryDataOf(txs) ==
    LET acc == CategoryTotals(txs)
    IN  {[name |-> k, value |-> acc[k]] : k \in DOMAIN acc}

---------------------------------------------------------------------------
(* The summary the server derives from its transactions (SummaryAggregator *)
(* of the specification: the server is not among the sources).             *)

ofType(txs, type) ==
    LET keep(t) == t.type = type
    IN  SelectSeq(txs, keep)

\* Aggregate with variable income also counted as income
AggregateCountsTwice(txs) ==
    [income |-> SumAmounts(SelectSeq(txs, isIncome)),
     variable_income |-> SumAmounts(ofType(txs, "variable_income")),
     fixed |-> SumAmounts(ofType(txs, "fixed_expense")),
     variable |-> SumAmounts(ofType(txs, "variable_expense")),
     invested |-> 0]

Aggregate(txs) ==
    [income |-> SumAmounts(ofType(txs, "income")),
     variable_income |-> SumAmounts(ofType(txs, "variable_income")),
     fixed |-> SumAmounts(ofType(txs, "fixed_expense")),
     variable |-> SumAmounts(ofType(txs, "variable_expense")),
     invested |-> 0]

---------------------------------------------------------------------------
(* App: state, operations and the inputs they are run on                   *)

MaxRows == 1

ZeroSummary ==
    [income |-> 0, variable_income |-> 0, fixed |-> 0, variable |-> 0, invested |-> 0]

\* summaries the server may supply whatever the client's list is
Summaries ==
    {[income |-> 500000, variable_income |-> 45050, fixed |-> 120000,
      variable |-> 7525, invested |-> 100000],
     [income |-> 100000, variable_income |-> 0, fixed |-> 180000,
      variable |-> 30000, invested |-> 0]}

\* transactions that differ in type, recurrence and in installments, start
\* date and date
ProjectionTransactions ==
    {Tx(ty, AmountOf(ty), "Casa", v.date, rec, v.installments, v.start) :
        ty \in Types, rec \in BOOLEAN,
        v \in {[date |-> [y |-> 2025, m |-> 6, d |-> 10], installments |-> 12,
                start |-> [y |-> 2025, m |-> 6, d |-> 10]],
               [date |-> [y |-> 2024, m |-> 3, d |-> 5], installments |-> 2,
                start |-> [y |-> 2024, m |-> 1, d |-> 5]]}}

\* labels: empty, ordinary, and two names of members of Object.prototype
Categories == {"", "Casa", "constructor", "__proto__"}

\* transactions that differ in type and category
CategoryTransactions ==
    {Tx(ty, AmountOf(ty), c, [y |-> 2025, m |-> 6, d |-> 10], FALSE, 1,
        [y |-> 2025, m |-> 6, d |-> 10]) : ty \in Types, c \in Categories}

\* rows that differ in recurrence, installments and start date
RowTransactions ==
    {Tx("fixed_expense", AmountOf("fixed_expense"), "Casa",
        [y |-> 2025, m |-> 12, d |-> 1], rec, n, st) :
        rec \in BOOLEAN, n \in {-1, 0, 1, 2, 12},
        st \in {NoDate, [y |-> 2025, m |-> 1, d |-> 15],
                [y |-> 2025, m |-> 1, d |-> 31], [y |-> 2025, m |-> 2, d |-> 1]}}

\* no row rendered yet
NoRow == Tx("", 0, "", NoDate, FALSE, 0, NoDate)

\* App before the first response: useState([]) and the zero summary
AppInit ==
    /\ summary = ZeroSummary
    /\ categoryData = CategoryDataOf(<<>>)
    /\ projectionData = ProjectionDataOf(<<>>, ZeroSummary, now, tzOffset)

RowInit ==
    /\ rowTx = NoRow
    /\ rowEnd = RowEnd(NoRow, tzOffset)

\* ReportsView mounted on an empty list
ViewInit ==
    /\ period = "monthly"
    /\ reportYear = getYear(now, tzOffset)
    /\ periodData = getPeriodData(<<>>, "monthly", getYear(now, tzOffset), tzOffset)

\* the render of App that follows a change of its state
Render ==
    /\ categoryData' = CategoryDataOf(transactions')
    /\ projectionData' = ProjectionDataOf(transactions', summary', now, tzOffset)

\* handleAddTransaction and the fetchData it ends with: the list with the
\* new transaction and the summary the server derives from it
AddTransaction(universe, max) ==
    \E t \in universe :
        /\ Len(transactions) < max
        /\ transactions' = Append(transactions, t)
        /\ summary' = Aggregate(transactions')
        /\ Render
        /\ UNCHANGED <<taxVars, viewVars, tzOffset, now, rowVars>>
        /\ UNCHANGED <<formVars, fetchVars>>

AddProjectionTransaction == AddTransaction(ProjectionTransactions, MaxTransactions)

AddCategoryTransaction == AddTransaction(CategoryTransactions, MaxTransactions)

AddRowTransaction == AddTransaction(RowTransactions, MaxRows)

\* deleteTransaction and the fetchData it ends with
DeleteTransaction ==
    \E i \in 1..Len(transactions) :
        /\ transactions' = SubSeq(transactions, 1, i - 1)
                              \o SubSeq(transactions, i + 1, Len(transactions))
        /\ summary' = Aggregate(transactions')
        /\ Render
        /\ UNCHANGED <<taxVars, viewVars, tzOffset, now, rowVars>>
        /\ UNCHANGED <<formVars, fetchVars>>

\* setSummary with a summary read from the server
ReceiveSummary ==
    \E s \in Summaries :
        /\ summary' = s
        /\ UNCHANGED transactions
        /\ Render
        /\ UNCHANGED <<taxVars, viewVars, tzOffset, now, rowVars>>
        /\ UNCHANGED <<formVars, fetchVars>>

\* the render of one row of the transactions table
RenderRow ==
    \E i \in 1..Len(transactions) :
        /\ rowTx' = transactions[i]
        /\ rowEnd' = RowEnd(transactions[i], tzOffset)
        /\ UNCHANGED <<taxVars, reportVars, appVars>>
        /\ UNCHANGED <<formVars, fetchVars>>

---------------------------------------------------------------------------
(* App: the transaction form and handleAddTransaction.  The text of a      *)
(* number input is a sequence of characters.                               *)

JsNaN == [t |-> "NaN", n |-> 0]

DigitOf(c) ==
    CASE c = "0" -> 0 [] c = "1" -> 1 [] c = "2" -> 2 [] c = "3" -> 3
      [] c = "4" -> 4 [] c = "5" -> 5 [] c = "6" -> 6 [] c = "7" -> 7
      [] c = "8" -> 8 [] c = "9" -> 9 [] OTHER -> -1

RECURSIVE LeadingDigits(_)
\* the number of digits the text starts with
LeadingDigits(text) ==
    IF text = <<>> \/ DigitOf(Head(text)) < 0 THEN 0
    ELSE 1 + LeadingDigits(Tail(text))

RECURSIVE DigitsValue(_)
\* the number a sequence of digits denotes
DigitsValue(digits) ==
    IF digits = <<>> THEN 0
    ELSE DigitsValue(SubSeq(digits, 1, Len(digits) - 1)) * 10
            + DigitOf(digits[Len(digits)])

\* the text without its sign
Unsigned(text) ==
    IF text # <<>> /\ Head(text) \in {"-", "+"} THEN Tail(text) ELSE text

\* parseInt(text): the sign and the digits that follow it, whatever comes
\* after them; NaN when no digit follows
parseInt(text) ==
    LET k == LeadingDigits(Unsigned(text))
        n == DigitsValue(SubSeq(Unsigned(text), 1, k))
    IN  IF k = 0 THEN JsNaN
        ELSE JsNumber(IF text[1] = "-" THEN 0 - n ELSE n)

\* JSON.stringify of a number: NaN becomes null, which is kept as 0 (both are
\* falsy where the table tests t.installments)
JsonNumber(v) == IF v.t = "number" THEN v.n ELSE 0

RECURSIVE Pow10(_)
Pow10(k) == IF k = 0 THEN 1 ELSE 10 * Pow10(k - 1)

\* the text is a number the input accepts: digits, with an optional minus
\* sign before them and an optional exponent after them
IsNumberText(text) ==
    LET body == IF text # <<>> /\ Head(text) = "-" THEN Tail(text) ELSE text
        k == LeadingDigits(body)
        rest == SubSeq(body, k + 1, Len(body))
    IN  /\ k > 0
        /\ \/ rest = <<>>
           \/ /\ Len(rest) > 1
              /\ Head(rest) = "e"
              /\ LeadingDigits(Tail(rest)) = Len(rest) - 1

\* the number the input holds (valueAsNumber)
NumberOfText(text) ==
    LET body == IF Head(text) = "-" THEN Tail(text) ELSE text
        k == LeadingDigits(body)
        mantissa == DigitsValue(SubSeq(body, 1, k))
        exponent == IF k = Len(body) THEN 0
                    ELSE DigitsValue(SubSeq(body, k + 2, Len(body)))
        n == mantissa * Pow10(exponent)
    IN  IF Head(text) = "-" THEN 0 - n ELSE n

MaxForms == 2

\* the days the two date inputs are set to
FormDates == {[y |-> 2025, m |-> 1, d |-> 10], [y |-> 2025, m |-> 3, d |-> 1]}

\* what is typed into the installments input
InstallmentTexts ==
    {<<>>, <<"0">>, <<"-", "1">>, <<"1">>, <<"1", "2">>, <<"1", "e", "1">>}

\* the fields of the form; start_date and installments are only there while
\* isRecurringChecked
Forms ==
    [type : {"fixed_expense"}, amount : {AmountOf("fixed_expense")},
     category : {"", "Casa"}, date : FormDates \cup {NoDate},
     start_date : FormDates \cup {NoDate}, installments : InstallmentTexts]

\* the browser submits the form: every input is filled in (required) and
\* the installments are a whole number, at least 1 (type="number" min="1")
FormValid(f, recurring) ==
    /\ f.category # ""
    /\ f.date # NoDate
    /\ recurring =>
          /\ f.start_date # NoDate
          /\ IsNumberText(f.installments)
          /\ NumberOfText(f.installments) >= 1

\* the data handleAddTransaction posts
FormData(f, recurring) ==
    Tx(f.type, f.amount, f.category, f.date, recurring,
       IF recurring THEN JsonNumber(parseInt(f.installments)) ELSE 1,
       IF recurring THEN f.start_date ELSE f.date)

FormInit == isRecurringChecked = FALSE

\* the checkbox of the form: setIsRecurringChecked(e.target.checked)
SetIsRecurringChecked ==
    /\ isRecurringChecked' = ~isRecurringChecked
    /\ UNCHANGED <<taxVars, reportVars, appVars, rowVars, fetchVars>>

\* handleAddTransaction on a form the browser lets through
SubmitTransaction ==
    AddTransaction({FormData(f, isRecurringChecked) :
                       f \in {g \in Forms : FormValid(g, isRecurringChecked)}},
                   MaxForms)

---------------------------------------------------------------------------
(* App: fetchData and the handlers that end with it.  A call is a handler  *)
(* or a fetchData under way; the server answers each request on its own,   *)
(* and each response arrives on its own.                                   *)

MaxCalls == 1
MaxFaults == 1

\* an investment, as far as the summary reads it
Investment(amount) == [amount |-> amount]

\* the transactions and the investment the user adds
FetchTransactions ==
    {Tx("income", AmountOf("income"), "Casa", [y |-> 2025, m |-> 6, d |-> 10],
        TRUE, 1, [y |-> 2025, m |-> 6, d |-> 10]),
     Tx("fixed_expense", AmountOf("fixed_expense"), "Casa",
        [y |-> 2025, m |-> 6, d |-> 10], FALSE, 1, [y |-> 2025, m |-> 6, d |-> 10])}

FetchInvestments == {Investment(100000)}

\* what GET /api/summary returns: the totals of the server's data
ServerSummary(data) ==
    [Aggregate(data.transactions) EXCEPT !.invested = SumAmounts(data.investments)]

EmptyData == [transactions |-> <<>>, investments |-> <<>>]

\* a response: not there yet, a JSON body, a body that is not JSON, or none
\* at all (the request failed)
Pending == [kind |-> "pending"]
JsonBody(body) == [kind |-> "json", body |-> body]
TextBody == [kind |-> "text"]

\* the list without the first transaction equal to t
RECURSIVE Without(_, _)
Without(txs, t) ==
    IF txs = <<>> THEN <<>>
    ELSE IF Head(txs) = t THEN Tail(txs)
    ELSE <<Head(txs)>> \o Without(Tail(txs), t)

\* a handler that awaits its POST or DELETE
Handler(op, arg) ==
    [op |-> op, arg |-> arg, stage |-> "request", seq |-> 0,
     tRes |-> Pending, iRes |-> Pending, sRes |-> Pending,
     before |-> <<>>, applied |-> {}]

\* fetchData once its three requests are sent
Fetching(c, seq, before) ==
    [c EXCEPT !.stage = "fetching", !.seq = seq, !.before = before]

\* the state fetchData replaces
ClientData == <<transactions, investments, summary>>

NoFetch == [outcome |-> "none", applied |-> {}, changed |-> FALSE]

\* how a fetchData call ended: what it had set, and whether it set anything
\* to a value other than the one held when the call started
Ended(c, outcome, applied) ==
    [outcome |-> outcome, applied |-> applied,
     changed |-> \/ "transactions" \in applied /\ c.tRes.body # c.before[1]
                 \/ "investments" \in applied /\ c.iRes.body # c.before[2]
                 \/ "summary" \in applied /\ c.sRes.body # c.before[3]]

\* calls without the i-th
Remove(cs, i) == SubSeq(cs, 1, i - 1) \o SubSeq(cs, i + 1, Len(cs))

\* no request under way: the handlers of the other components run to their
\* end in one step
FetchIdle ==
    /\ investments = <<>>
    /\ server = EmptyData
    /\ calls = <<>>
    /\ started = 0
    /\ faults = 0
    /\ lastFetch = NoFetch

\* App mounted: useEffect has called fetchData
FetchInit ==
    /\ investments = <<>>
    /\ server = EmptyData
    /\ calls = <<Fetching(Handler("mount", <<>>), 1, <<<<>>, <<>>, ZeroSummary>>)>>
    /\ started = 1
    /\ faults = 0
    /\ lastFetch = NoFetch

\* the handlers whose fetchData has not started yet
Waiting == {i \in 1..Len(calls) : calls[i].stage \in {"request", "response"}}

\* a handler starts: its POST or DELETE is sent
StartHandler(op, arg) ==
    /\ started + Cardinality(Waiting) < MaxCalls + 1
    /\ calls' = Append(calls, Handler(op, arg))
    /\ UNCHANGED <<taxVars, reportVars, appVars, rowVars, formVars>>
    /\ UNCHANGED <<investments, server, started, faults, lastFetch>>

handleAddTransaction == \E t \in FetchTransactions : StartHandler("addTransaction", t)

handleAddInvestment == \E v \in FetchInvestments : StartHandler("addInvestment", v)

\* the delete button of a row that is shown
deleteTransaction ==
    \E k \in 1..Len(transactions) : StartHandler("delete", transactions[k])

\* the server handles the POST or DELETE of a handler
ServerHandles ==
    \E i \in 1..Len(calls) :
        /\ calls[i].stage = "request"
        /\ server' =
              CASE calls[i].op = "addTransaction" ->
                     [server EXCEPT !.transactions = Append(@, calls[i].arg)]
                [] calls[i].op = "addInvestment" ->
                     [server EXCEPT !.investments = Append(@, calls[i].arg)]
                [] calls[i].op = "delete" ->
                     [server EXCEPT !.transactions = Without(@, calls[i].arg)]
        /\ calls' = [calls EXCEPT ![i].stage = "response"]
        /\ UNCHANGED <<taxVars, reportVars, appVars, rowVars, formVars>>
        /\ UNCHANGED <<investments, started, faults, lastFetch>>

\* await fetch(...) of a handler rejects, before or after the server has
\* handled the request: the handler ends without calling fetchData
RequestFails ==
    \E i \in Waiting :
        /\ faults < MaxFaults
        /\ faults' = faults + 1
        /\ calls' = Remove(calls, i)
        /\ UNCHANGED <<taxVars, reportVars, appVars, rowVars, formVars>>
        /\ UNCHANGED <<investments, server, started, lastFetch>>

\* the handler resumes after its await and calls fetchData, which sends the
\* three GET requests
fetchData ==
    \E i \in 1..Len(calls) :
        /\ calls[i].stage = "response"
        /\ started' = started + 1
        /\ calls' = [calls EXCEPT ![i] = Fetching(calls[i], started + 1, ClientData)]
        /\ UNCHANGED <<taxVars, reportVars, appVars, rowVars, formVars>>
        /\ UNCHANGED <<investments, server, faults, lastFetch>>

Requests == {"tRes", "iRes", "sRes"}

\* what the server holds behind the request
Resource(r) ==
    CASE r = "tRes" -> server.transactions
      [] r = "iRes" -> server.investments
      [] r = "sRes" -> ServerSummary(server)

\* the three requests of the call are answered
AllAnswered(c) == \A r \in Requests : c[r].kind # "pending"

\* the server answers one GET of a fetchData with its current data
ServerAnswers ==
    \E i \in 1..Len(calls), r \in Requests :
        /\ calls[i].stage = "fetching"
        /\ calls[i][r].kind = "pending"
        /\ calls' = [calls EXCEPT ![i][r] = JsonBody(Resource(r))]
        /\ UNCHANGED <<taxVars, reportVars, appVars, rowVars, formVars>>
        /\ UNCHANGED <<investments, server, started, faults, lastFetch>>

\* one GET is answered with a body that is not JSON (an error page)
ServerAnswersText ==
    \E i \in 1..Len(calls), r \in Requests :
        /\ calls[i].stage = "fetching"
        /\ calls[i][r].kind = "pending"
        /\ faults < MaxFaults
        /\ faults' = faults + 1
        /\ calls' = [calls EXCEPT ![i][r] = TextBody]
        /\ UNCHANGED <<taxVars, reportVars, appVars, rowVars, formVars>>
        /\ UNCHANGED <<investments, server, started, lastFetch>>

\* one GET fails: Promise.all rejects and the catch ends fetchData
FetchRejects ==
    \E i \in 1..Len(calls) :
        /\ calls[i].stage = "fetching"
        /\ ~AllAnswered(calls[i])
        /\ faults < MaxFaults
        /\ faults' = faults + 1
        /\ calls' = Remove(calls, i)
        /\ lastFetch' = Ended(calls[i], "failed", {})
        /\ UNCHANGED <<taxVars, reportVars, appVars, rowVars, formVars>>
        /\ UNCHANGED <<investments, server, started>>

\* Promise.all resolves; setTransactions(await tRes.json())
SetTransactions ==
    \E i \in 1..Len(calls) :
        /\ calls[i].stage = "fetching"
        /\ AllAnswered(calls[i])
        /\ IF calls[i].tRes.kind = "json"
           THEN /\ transactions' = calls[i].tRes.body
                /\ calls' = [calls EXCEPT ![i].stage = "investments",
                                          ![i].applied = {"transactions"}]
                /\ UNCHANGED lastFetch
           ELSE /\ UNCHANGED transactions
                /\ calls' = Remove(calls, i)
                /\ lastFetch' = Ended(calls[i], "failed", {})
        /\ UNCHANGED summary
        /\ Render
        /\ UNCHANGED <<taxVars, viewVars, tzOffset, now, rowVars, formVars>>
        /\ UNCHANGED <<investments, server, started, faults>>

\* setInvestments(await iRes.json())
SetInvestments ==
    \E i \in 1..Len(calls) :
        /\ calls[i].stage = "investments"
        /\ IF calls[i].iRes.kind = "json"
           THEN /\ investments' = calls[i].iRes.body
                /\ calls' = [calls EXCEPT ![i].stage = "summary",
                                          ![i].applied = @ \cup {"investments"}]
                /\ UNCHANGED lastFetch
           ELSE /\ UNCHANGED investments
                /\ calls' = Remove(calls, i)
                /\ lastFetch' = Ended(calls[i], "failed", calls[i].applied)
        /\ UNCHANGED <<taxVars, reportVars, appVars, rowVars, formVars>>
        /\ UNCHANGED <<server, started, faults>>

\* setSummary(await sRes.json()), the end of fetchData
SetSummary ==
    \E i \in 1..Len(calls) :
        /\ calls[i].stage = "summary"
        /\ IF calls[i].sRes.kind = "json"
           THEN /\ summary' = calls[i].sRes.body
                /\ lastFetch' = Ended(calls[i], "ok", calls[i].applied \cup {"summary"})
           ELSE /\ UNCHANGED summary
                /\ lastFetch' = Ended(calls[i], "failed", calls[i].applied)
        /\ calls' = Remove(calls, i)
        /\ UNCHANGED transactions
        /\ Render
        /\ UNCHANGED <<taxVars, viewVars, tzOffset, now, rowVars, formVars>>
        /\ UNCHANGED <<investments, server, started, faults>>

---------------------------------------------------------------------------
(* App: figures computed where they are displayed                          *)

\* "Estimativa em 1 Ano": projectionData[5].balance * 2
YearEstimate(projection) == projection[6].balance * 2

\* Math.min((part / gross) * 100 * 5, 100), the width of a tax bar in
\* percent, for a part in currency units and a gross income in cents: NaN
\* for 0 / 0, and otherwise 100 (capped) or the ratio part * 500 / gross,
\* kept by its sign
BarWidth(part, gross) ==
    LET times5 == Add(Add(Add(Add(part, part), part), part), part)
        sign == IF part = Zero THEN 0
                ELSE IF (gross > 0) = Lt(Zero, part) THEN 1 ELSE -1
    IN  IF gross = 0
        THEN IF part = Zero THEN [t |-> "NaN", capped |-> FALSE, sign |-> 0]
             ELSE [t |-> "number", capped |-> Lt(Zero, part),
                   sign |-> IF Lt(Zero, part) THEN 1 ELSE -1]
        ELSE [t |-> "number",
              capped |-> IF gross > 0 THEN Leq(Cents(gross), times5)
                         ELSE Leq(times5, Cents(gross)),
              sign |-> sign]

---------------------------------------------------------------------------
(* Specifications                                                          *)

\* the tax estimator, with ReportsView idle
InitTax ==
    /\ TaxInit
    /\ transactions = <<>>
    /\ tzOffset = 0
    /\ now \in Clocks
    /\ period = "monthly"
    /\ reportYear = getYear(now, 0)
    /\ periodData = getPeriodData(<<>>, "monthly", getYear(now, 0), 0)
    /\ AppInit
    /\ RowInit
    /\ FormInit
    /\ FetchIdle

NextTax == RenderTaxes

SpecTax == InitTax /\ [][NextTax]_vars

\* ReportsView, with the tax estimator idle
\* (App's derived data is not rendered here and keeps its initial value)
InitReport == ReportInit /\ TaxInit /\ AppInit /\ RowInit /\ FormInit /\ FetchIdle

NextReport == SetPeriod \/ Tick

SpecReport == InitReport /\ [][NextReport]_vars

\* App as first rendered, in some time zone at some moment
\* App as first rendered, whatever the requests under way
InitRendered ==
    /\ transactions = <<>>
    /\ tzOffset \in TzOffsets
    /\ now \in Clocks
    /\ TaxInit
    /\ ViewInit
    /\ AppInit
    /\ RowInit
    /\ FormInit

InitApp == InitRendered /\ FetchIdle

\* the projection: any summary with any list of ProjectionTransactions
NextProjection ==
    AddProjectionTransaction \/ DeleteTransaction \/ ReceiveSummary \/ Tick

SpecProjection == InitApp /\ [][NextProjection]_vars

\* the category totals and the summary derived from the same list
NextCategory == AddCategoryTransaction \/ DeleteTransaction

SpecCategory == InitApp /\ [][NextCategory]_vars

\* the rows of the transactions table
NextRow == AddRowTransaction \/ DeleteTransaction \/ RenderRow

SpecRow == InitApp /\ [][NextRow]_vars

\* the transaction form
NextForm == SetIsRecurringChecked \/ SubmitTransaction \/ DeleteTransaction

SpecForm == InitApp /\ [][NextForm]_vars

\* the handlers, fetchData and the server, in one time zone at one moment
InitFetch ==
    /\ InitRendered
    /\ tzOffset = 0
    /\ now = DaysFromCivil(2025, 6, 15) * 24 + 12
    /\ FetchInit

NextFetch ==
    \/ handleAddTransaction
    \/ handleAddInvestment
    \/ deleteTransaction
    \/ ServerHandles
    \/ RequestFails
    \/ fetchData
    \/ ServerAnswers
    \/ ServerAnswersText
    \/ FetchRejects
    \/ SetTransactions
    \/ SetInvestments
    \/ SetSummary

SpecFetch == InitFetch /\ [][NextFetch]_vars

---------------------------------------------------------------------------
(* Properties of calculateTaxes, checked under SpecTax                     *)

\* the taxable base of a result: grossIncome - inss
BaseOf(g, t) == Sub(Cents(g), t.inss)

IrpfLimits == <<IrpfLimit1, IrpfLimit2, IrpfLimit3, IrpfLimit4>>

\* a and b differ by at most tol
Within(a, b, tol) == Leq(Sub(a, tol), b) /\ Leq(b, Add(a, tol))

\* the part of g that lies between lo and hi
Slice(g, lo, hi) ==
    IF Leq(g, lo) THEN Zero ELSE IF Leq(hi, g) THEN Sub(hi, lo) ELSE Sub(g, lo)

\* the marginal sum over the pension brackets: rate x the part of g in each
MarginalInss(g) ==
    Add(Add(MulRate(Slice(g, Zero, InssLimit1), 75),
            MulRate(Slice(g, InssLimit1, InssLimit2), 90)),
        Add(MulRate(Slice(g, InssLimit2, InssLimit3), 120),
            MulRate(Slice(g, InssLimit3, InssLimit4), 140)))

\* C1: for gross incomes 0 <= g1 <= g2 the pension contribution of g1 is at
\* most that of g2, also when g crosses 7786.02 into the capped bracket.
C1_InssNonDecreasing ==
    [][(0 <= grossIncome /\ grossIncome <= grossIncome')
          => Leq(taxes.inss, taxes'.inss)]_vars

\* C2: for every gross income g >= 0 the pension contribution is at most
\* 908.85, and it is exactly 908.85 for every g above 7786.02.
C2_InssCapped ==
    grossIncome >= 0 =>
        /\ Leq(taxes.inss, InssCap)
        /\ (grossIncome > 778602 => taxes.inss = InssCap)

\* C3: at each limit of the taxable base the lower bracket's formula and the
\* higher bracket's formula give the same value, so the income tax does not
\* drop when the base crosses into a higher bracket.
C3_IrpfContinuous ==
    [][LET lo == IrpfBracket(BaseOf(grossIncome, taxes))
           hi == IrpfBracket(BaseOf(grossIncome', taxes'))
       IN  (Leq(BaseOf(grossIncome, taxes), BaseOf(grossIncome', taxes')) /\ lo < hi)
              => /\ \A k \in lo..(hi - 1) :
                        IrpfFormula(k, IrpfLimits[k]) = IrpfFormula(k + 1, IrpfLimits[k])
                 /\ Leq(taxes.irpf, taxes'.irpf)]_vars

\* C4: for every gross income g >= 0 the income tax is >= 0.
C4_IrpfNonNegative == grossIncome >= 0 => Leq(Zero, taxes.irpf)

\* an income whose base is just above the first limit: a tax below one cent
C4_Witness ==
    /\ grossIncome > 0
    /\ IrpfBracket(BaseOf(grossIncome, taxes)) = 2
    /\ Lt(Zero, taxes.irpf)
    /\ Lt(taxes.irpf, Cents(1))

\* C5: for every gross income in [0, 7786.02] the pension contribution is the
\* marginal sum over the brackets bounded by 0, 1412, 2666.68, 4000.03 and
\* 7786.02 with rates 7.5%, 9%, 12% and 14%.
C5_InssMarginal ==
    (0 <= grossIncome /\ grossIncome <= 778602)
        => taxes.inss = MarginalInss(Cents(grossIncome))

\* an income in the 14% bracket, where three lower brackets contribute in full
C5_Witness ==
    /\ 400003 < grossIncome /\ grossIncome <= 778602
    /\ taxes.inss = MarginalInss(Cents(grossIncome))
    /\ taxes.inss # MulRate(Cents(grossIncome), 140)

\* C6: for every gross income the result has net = g - inss - irpf, with the
\* inss and irpf of the same result.
C6_NetIsGrossMinusDeductions ==
    taxes.net = Sub(Sub(Cents(grossIncome), taxes.inss), taxes.irpf)

\* a result in which both deductions are positive
C6_Witness ==
    /\ Lt(Zero, taxes.inss)
    /\ Lt(Zero, taxes.irpf)
    /\ Lt(taxes.net, Cents(grossIncome))

\* C7: for every gross income g <= 0 both deductions are zero.
C7_NonPositiveHasZeroDeductions ==
    grossIncome <= 0 => (taxes.inss = Zero /\ taxes.irpf = Zero)

\* C8: the worked examples: g = 1000 gives pension 75.00, income tax 0 and
\* net 925.00 exactly; g = 5000 gives, each within one cent, pension 518.82,
\* income tax 345.49 (base 4481.18, in the <= 4664.68 bracket), net 4135.69.
C8_WorkedExamples ==
    /\ grossIncome = 100000 =>
          /\ taxes.inss = Cents(7500)
          /\ taxes.irpf = Zero
          /\ taxes.net = Cents(92500)
    /\ grossIncome = 500000 =>
          /\ Within(taxes.inss, Cents(51882), Cents(1))
          /\ Within(BaseOf(grossIncome, taxes), Cents(448118), Cents(1))
          /\ IrpfBracket(BaseOf(grossIncome, taxes)) = 4
          /\ Within(taxes.irpf, Cents(34549), Cents(1))
          /\ Within(taxes.net, Cents(413569), Cents(1))

\* the second worked example has been computed
C8_Witness == grossIncome = 500000 /\ Lt(Zero, taxes.irpf)

---------------------------------------------------------------------------
(* Properties of getPeriodData, checked under SpecReport                   *)

RECURSIVE SumField(_, _)
\* the sum of the incomes (f = "income") or expenses of a list of buckets
SumField(data, f) ==
    IF data = <<>> THEN 0
    ELSE SumField(SubSeq(data, 1, Len(data) - 1), f) + data[Len(data)][f]

\* the transactions whose date string names month i (0..11) of year y
DatedInMonth(txs, i, y) ==
    LET keep(t) == t.date.m - 1 = i /\ t.date.y = y
    IN  SelectSeq(txs, keep)

\* C9: in the monthly report a transaction is counted in bucket i iff its
\* calendar date (the YYYY-MM-DD value of date) is in month i of the report
\* year, for every date and in every local time zone.
C9_MonthlyBucketByCalendarDate ==
    period = "monthly" =>
        \A i \in 0..11 :
            /\ periodData[i + 1].income =
                  SumAmounts(SelectSeq(DatedInMonth(transactions, i, reportYear), isIncome))
            /\ periodData[i + 1].expenses =
                  SumAmounts(SelectSeq(DatedInMonth(transactions, i, reportYear), isExpense))

\* the annual bucket of the rendered list, year and time zone
AnnualBucket == getPeriodData(transactions, "annual", reportYear, tzOffset)[1]

\* C10: the incomes of the buckets of a report add up to the annual bucket's
\* income, and the expenses to its expenses, in the monthly, the quarterly
\* and the semi-annual report.
C10_BucketsAddUpToAnnual ==
    /\ SumField(periodData, "income") = AnnualBucket.income
    /\ SumField(periodData, "expenses") = AnnualBucket.expenses

\* a report of several buckets with income in two of them
C10_Witness ==
    /\ period = "semi-annual"
    /\ periodData[1].income > 0
    /\ periodData[2].income > 0
    /\ AnnualBucket.income = periodData[1].income + periodData[2].income

\* the transactions whose date string names a day of year y
DatedInYear(txs, y) ==
    LET keep(t) == t.date.y = y
    IN  SelectSeq(txs, keep)

\* C11: a transaction whose calendar date is outside the report year adds to
\* no bucket's income or expenses, and one dated inside the year is counted
\* in exactly one bucket, in each of the four granularities: the buckets'
\* totals are the totals of the transactions dated in the report year.
C11_OnlyTheReportYearCounts ==
    /\ SumField(periodData, "income") =
          SumAmounts(SelectSeq(DatedInYear(transactions, reportYear), isIncome))
    /\ SumField(periodData, "expenses") =
          SumAmounts(SelectSeq(DatedInYear(transactions, reportYear), isExpense))

\* the monthly buckets of the rendered list, year and time zone
MonthlyBuckets == getPeriodData(transactions, "monthly", reportYear, tzOffset)

\* the sum of field f over the buckets of months lo..hi (0..11) of monthly
MonthsTotalOf(monthly, lo, hi, f) == SumField(SubSeq(monthly, lo + 1, hi + 1), f)

MonthsTotal(lo, hi, f) == MonthsTotalOf(MonthlyBuckets, lo, hi, f)

\* C12: the quarterly report has exactly 4 buckets in order, bucket q being
\* the sum of monthly buckets 3(q-1)..3(q-1)+2; the semi-annual report has
\* exactly 2 buckets, the sums of monthly buckets 0..5 and 6..11.
C12_QuartersAndSemestersOfMonths ==
    LET monthly == MonthlyBuckets
    IN  /\ period = "quarterly" =>
              /\ Len(periodData) = 4
              /\ \A q \in 1..4 :
                    /\ periodData[q].label = <<"Trimestre", q>>
                    /\ periodData[q].income =
                          MonthsTotalOf(monthly, 3 * (q - 1), 3 * (q - 1) + 2, "income")
                    /\ periodData[q].expenses =
                          MonthsTotalOf(monthly, 3 * (q - 1), 3 * (q - 1) + 2, "expenses")
        /\ period = "semi-annual" =>
              /\ Len(periodData) = 2
              /\ \A h \in 1..2 :
                    /\ periodData[h].label = <<"Semestre", h>>
                    /\ periodData[h].income =
                          MonthsTotalOf(monthly, 6 * (h - 1), 6 * (h - 1) + 5, "income")
                    /\ periodData[h].expenses =
                          MonthsTotalOf(monthly, 6 * (h - 1), 6 * (h - 1) + 5, "expenses")

\* a quarterly report with income in the first and in the third quarter
C12_Witness ==
    /\ period = "quarterly"
    /\ periodData[1].income > 0
    /\ periodData[3].income > 0
    /\ periodData[1].income = MonthsTotal(0, 2, "income")

---------------------------------------------------------------------------
(* Properties of projectionData, checked under SpecProjection              *)

\* what one transaction adds to the monthly difference
RecurringSigned(t) ==
    IF ~t.is_recurring THEN 0
    ELSE IF t.type \in {"income", "variable_income"} THEN t.amount
    ELSE IF t.type \in {"fixed_expense", "variable_expense"} THEN 0 - t.amount
    ELSE 0

RECURSIVE RecurringDifference(_)
\* recurringIncome - recurringExpense, transaction by transaction
RecurringDifference(txs) ==
    IF txs = <<>> THEN 0
    ELSE RecurringSigned(Head(txs)) + RecurringDifference(Tail(txs))

\* the current net balance of a summary
NetBalance(summ) == summ.income + summ.variable_income - summ.fixed - summ.variable

\* C13: the projection has exactly 6 entries and the balance of entry i
\* (0..5) is (recurringIncome - recurringExpense) x (i + 1) + the summary's
\* net balance, so consecutive entries differ by the monthly difference.
C13_ProjectionIsLinear ==
    /\ Len(projectionData) = 6
    /\ \A i \in 0..5 :
          projectionData[i + 1].balance =
              RecurringDifference(transactions) * (i + 1) + NetBalance(summary)
    /\ \A i \in 1..5 :
          projectionData[i + 1].balance - projectionData[i].balance =
              RecurringDifference(transactions)

\* a supplied summary and a list with a recurring income and a recurring
\* expense that do not cancel
C13_Witness ==
    /\ summary \in Summaries
    /\ \E j, k \in 1..Len(transactions) :
          isRecurringIncome(transactions[j]) /\ isRecurringExpense(transactions[k])
    /\ projectionData[1].balance = RecurringDifference(transactions) + NetBalance(summary)
    /\ projectionData[6].balance # projectionData[1].balance

\* the list with installments, start_date and date of every entry replaced
SameButDates(txs) ==
    [k \in DOMAIN txs |->
        [txs[k] EXCEPT !.installments = 1,
                       !.start_date = [y |-> 2030, m |-> 1, d |-> 1],
                       !.date = [y |-> 2030, m |-> 1, d |-> 1]]]

\* the recurring transactions of the list
RecurringOnly(txs) ==
    LET keep(t) == t.is_recurring
    IN  SelectSeq(txs, keep)

\* C14: a recurring transaction adds its full amount in every projected
\* month whatever its installments, start_date and date, and a transaction
\* that is not recurring adds nothing: the balances are those of the list with
\* these three fields replaced, and those of its recurring transactions alone.
C14_ProjectionIgnoresInstallments ==
    \A k \in 1..6 :
        /\ projectionData[k].balance =
              ProjectionDataOf(SameButDates(transactions), summary, now, tzOffset)[k].balance
        /\ projectionData[k].balance =
              ProjectionDataOf(RecurringOnly(transactions), summary, now, tzOffset)[k].balance

\* a recurring transaction of 2 installments begun in 2024, still counted in
\* the sixth projected month, beside one that is not recurring
C14_Witness ==
    /\ Len(transactions) = 2
    /\ transactions[1].is_recurring
    /\ transactions[1].installments = 2
    /\ transactions[1].start_date.y = 2024
    /\ ~transactions[2].is_recurring
    /\ projectionData[6].balance - projectionData[5].balance
          = RecurringSigned(transactions[1])
    /\ RecurringSigned(transactions[1]) # 0

---------------------------------------------------------------------------
(* Properties of the summary and of categoryData, under SpecCategory       *)

RECURSIVE SumValues(_)
\* the sum of the numbers among the values of a set of entries
SumValues(entries) ==
    IF entries = {} THEN 0
    ELSE LET e == CHOOSE x \in entries : TRUE
         IN  (IF e.value.t = "number" THEN e.value.n ELSE 0) + SumValues(entries \ {e})

\* the expenses of the list labelled c
ExpensesOf(txs, c) ==
    LET keep(t) == isExpense(t) /\ t.category = c
    IN  SelectSeq(txs, keep)

\* C16: the category totals are numbers that add up to the sum of the
\* amounts of all fixed_expense and variable_expense transactions.
C16_CategoryTotalsAddUp ==
    /\ \A e \in categoryData : e.value.t = "number"
    /\ SumValues(categoryData) = SumAmounts(SelectSeq(transactions, isExpense))

\* C17: income and variable_income add nothing to the category totals, and
\* the entries are keyed by the label alone: there is one entry for each label
\* an expense carries (the empty label too), holding the total of the expenses
\* of that label whatever their type, date and recurrence.
C17_CategoryTotalsKeyedByLabel ==
    /\ {e.name : e \in categoryData} =
          {transactions[k].category :
              k \in {j \in 1..Len(transactions) : isExpense(transactions[j])}}
    /\ \A e \in categoryData :
          e.value = JsNumber(SumAmounts(ExpensesOf(transactions, e.name)))
    /\ \A e, f \in categoryData : e.name = f.name => e = f

---------------------------------------------------------------------------
(* Properties of the end date of a table row, under SpecRow                *)

\* a row of the table has been rendered
RowRendered == rowTx # NoRow

\* the date getEndDate is called with for the rendered row
RowStart == IF rowTx.start_date # NoDate THEN rowTx.start_date ELSE rowTx.date

\* month and year of the calendar date, advanced by n calendar months
CalendarMonthPlus(date, n) ==
    LET total == date.y * 12 + (date.m - 1) + n
    IN  [m |-> (total % 12) + 1, y |-> total \div 12]

\* C18: for n >= 1 the end date shown is the month and year of the start
\* date advanced by n - 1 calendar months, rolling into the next year: the
\* start date's own month for n = 1 in every time zone, 12/2025 for
\* 2025-01-15 and n = 12.
C18_EndDateIsStartPlusMonths ==
    (RowRendered /\ rowEnd.kind = "date" /\ rowTx.installments >= 1)
        => rowEnd.end = CalendarMonthPlus(RowStart, rowTx.installments - 1)

\* the row that starts on 2025-01-31 and has 2 installments
EndOfJanuaryRow ==
    /\ RowRendered
    /\ rowTx.is_recurring
    /\ rowTx.installments = 2
    /\ rowTx.start_date = [y |-> 2025, m |-> 1, d |-> 31]

\* C19: getEndDate("2025-01-31", 2) lies in February 2025, the month after
\* the start month, and not in March 2025.
C19_EndOfJanuaryRollsToFebruary ==
    EndOfJanuaryRow => rowEnd = [kind |-> "date", end |-> [m |-> 2, y |-> 2025]]

\* the row is rendered west of UTC, where the start is 30 January local time
C19_Witness == EndOfJanuaryRow /\ tzOffset < 0 /\ rowEnd.kind = "date"

\* C20: an installment count below 1 never yields a date: no end date
\* derived from a zero or negative count is displayed.
C20_CountBelowOneShowsNoDate ==
    (RowRendered /\ rowTx.installments < 1) => rowEnd.kind # "date"

---------------------------------------------------------------------------
(* Properties of the transaction form, under SpecForm                      *)

\* the date a is not after the date b
DateLeq(a, b) == DaysFromCivil(a.y, a.m, a.d) <= DaysFromCivil(b.y, b.m, b.d)

\* C21: every recurring transaction submitted through the form has
\* installments >= 1 and a start_date that is not after its date.
C21_SubmittedRecurringIsWellFormed ==
    \A k \in 1..Len(transactions) :
        transactions[k].is_recurring =>
            /\ transactions[k].installments >= 1
            /\ DateLeq(transactions[k].start_date, transactions[k].date)

---------------------------------------------------------------------------
(* Properties of the displayed figures                                     *)

\* C24: the one-year estimate is the linear projection at 12 months, the
\* current net balance plus 12 times the monthly difference (SpecProjection).
C24_YearEstimateIsProjectionAt12 ==
    YearEstimate(projectionData) =
        NetBalance(summary) + 12 * RecurringDifference(transactions)

\* the width is a number between 0 and 100
WidthInRange(width) ==
    width.t = "number" /\ (width.capped \/ width.sign >= 0)

\* C25: in every state, the initial one with a zero summary included, the
\* widths of the two tax bars are numbers between 0 and 100: no width is the
\* NaN of a division of zero by zero (SpecTax).
C25_TaxBarsInRange ==
    /\ WidthInRange(BarWidth(taxes.inss, grossIncome))
    /\ WidthInRange(BarWidth(taxes.irpf, grossIncome))

---------------------------------------------------------------------------
(* Properties of the aggregators as functions of their inputs              *)

\* C22: a render that follows another with the same transaction list, the
\* same summary and the same period shows the same period report, category
\* totals and projection, whenever it happens (SpecReport).
C22_SameInputsSameOutput ==
    [][(transactions' = transactions /\ summary' = summary /\ period' = period)
          => /\ periodData' = periodData
             /\ categoryData' = categoryData
             /\ projectionData' = projectionData]_vars

---------------------------------------------------------------------------
(* Properties of fetchData, under SpecFetch                                *)

\* the client holds the server's current data
InSync ==
    /\ transactions = server.transactions
    /\ investments = server.investments
    /\ summary = ServerSummary(server)

\* C23: once every request has completed, none having failed, the client
\* holds the server's current data, in whatever order the responses of
\* overlapping fetchData calls arrived.
C23_QuiescentClientInSync ==
    (calls = <<>> /\ faults = 0) => InSync

AllThree == {"transactions", "investments", "summary"}

\* C26: a fetchData call that succeeds has replaced all three of
\* transactions, investments and summary, and one that fails has left all
\* three as they were before the call.
C26_FetchIsAllOrNothing ==
    /\ lastFetch.outcome = "ok" => lastFetch.applied = AllThree
    /\ lastFetch.outcome = "failed" => ~lastFetch.changed

===========================================================================
